---- MODULE Spec2Model ----
(***************************************************************************)
(* Detection-and-fusion engine of the vulnerability scanner:               *)
(*   client/src/lib/patternMatching.ts  (signature registry, matcher,      *)
(*                                       confidence scorer)                *)
(*   client/src/lib/aiAnalysis.ts       (result fusion)                    *)
(*   server/storage.ts, unnamed/part_001 (score aggregators,               *)
(*                                       analyzeCodeSecurity)              *)
(*   client/src/lib/aiAnalysis.ts       (analyzeWithAI)                    *)
(*   server/aiAnalysis.ts               (AIVulnerabilityAnalyzer)          *)
(*                                                                         *)
(* Strings that the code inspects character by character (finding types)   *)
(* are sequences of one-character strings.  Source lines are sequences of  *)
(* lexemes: each lexeme is the text of one lexical unit, its width in      *)
(* characters is Len(lexeme).                                              *)
(***************************************************************************)
EXTENDS Integers, Sequences, FiniteSets, TLC

VARIABLES
  patternResults,   \* the caller's array of pattern findings (objects shared with combined)
  aiResults,        \* the semantic findings handed to the last merge
  combined,         \* the array returned by the last merge
  entry,            \* patternResults as it was when the last merge was entered
  pc,               \* "input": no merge yet; "merged": combineAnalysisResults has returned
  vulnerabilities,  \* the array returned by the last detectPatterns call
  scanned,          \* <<code, fileName>> of the last detectPatterns call
  lastIndex,        \* lastIndex of each registry RegExp object (all carry the g flag)
  calls,            \* number of detectPatterns calls made so far
  findingsIn,       \* the finding list handed to the last score computation
  score,            \* [server |-> tenths of a point, gemini |-> points] of that list
  response,         \* what the model service did on the last analyzeCodeSecurity call
  analysis,         \* how that analyzeCodeSecurity call settled
  aiCall,           \* the last analyzeWithAI call: its environment, the service's reply, how it settled
  join,             \* a scan that runs the pattern path and the server analyser and joins them
  thrown,           \* the exception the last detectPatterns call raised, "none" if it returned
  confidenceCall,   \* the last calculateConfidence call: its arguments and its result
  previousCall,     \* the calculateConfidence call before that one
  lookup            \* the last getVulnerabilityType... call: its argument and its result

vars == <<patternResults, aiResults, combined, entry, pc,
          vulnerabilities, scanned, lastIndex, calls, findingsIn, score,
          response, analysis, aiCall, join, thrown, confidenceCall, previousCall, lookup>>

fusionVars == <<patternResults, aiResults, combined, entry, pc>>
detectVars == <<vulnerabilities, scanned, lastIndex, calls>>
scoreVars  == <<findingsIn, score>>
reviewVars == <<response, analysis, aiCall, join, thrown>>
helperVars == <<confidenceCall, previousCall, lookup>>

----------------------------------------------------------------------------
(* Bounds of the explored inputs                                           *)

\* longest pattern-finding list handed to a merge
MaxPattern == 2
\* longest semantic-finding list handed to a merge
MaxSemantic == 2
\* most lines in a scanned source text
MaxLines == 2
\* most detectPatterns calls in one run
MaxCalls == 3
\* longest finding list handed to a score computation
MaxScored == 2

----------------------------------------------------------------------------
(* JavaScript string primitives on character sequences                     *)

Min(a, b) == IF a < b THEN a ELSE b
Max(a, b) == IF a > b THEN a ELSE b
Abs(n) == IF n < 0 THEN 0 - n ELSE n

\* the letters toLowerCase changes
LowerOf ==
  ("A" :> "a") @@ ("B" :> "b") @@ ("C" :> "c") @@ ("D" :> "d") @@ ("E" :> "e") @@ ("F" :> "f") @@
  ("G" :> "g") @@ ("H" :> "h") @@ ("I" :> "i") @@ ("J" :> "j") @@ ("K" :> "k") @@ ("L" :> "l") @@
  ("M" :> "m") @@ ("N" :> "n") @@ ("O" :> "o") @@ ("P" :> "p") @@ ("Q" :> "q") @@ ("R" :> "r") @@
  ("S" :> "s") @@ ("T" :> "t") @@ ("U" :> "u") @@ ("V" :> "v") @@ ("W" :> "w") @@ ("X" :> "x") @@
  ("Y" :> "y") @@ ("Z" :> "z")

\* String.prototype.toLowerCase, one character
lowerChar(c) == IF c \in DOMAIN LowerOf THEN LowerOf[c] ELSE c

\* String.prototype.toLowerCase
toLowerCase(s) == <<>> \o [i \in 1..Len(s) |-> lowerChar(s[i])]

\* s.split(' ')[0]: the characters before the first space (empty when s starts with one)
splitFirst(s) ==
  IF \E i \in 1..Len(s) : s[i] = " "
  THEN SubSeq(s, 1, (CHOOSE i \in 1..Len(s) : s[i] = " " /\ \A k \in 1..(i-1) : s[k] # " ") - 1)
  ELSE s

\* String.prototype.includes: needle occurs somewhere in hay (always, when needle is empty)
includes(hay, needle) ==
  \E i \in 0..(Len(hay) - Len(needle)) : SubSeq(hay, i + 1, i + Len(needle)) = needle

\* String.prototype.startsWith
startsWith(s, prefix) ==
  Len(prefix) <= Len(s) /\ SubSeq(s, 1, Len(prefix)) = prefix

----------------------------------------------------------------------------
(* Finding types used as merge inputs                                      *)

\* "SQL Injection"
TypeSqlInjection == <<"S","Q","L"," ","I","n","j","e","c","t","i","o","n">>
\* "XSS"
TypeXss == <<"X","S","S">>
\* "SQL Injection Risk"
TypeSqlInjectionRisk == <<"S","Q","L"," ","I","n","j","e","c","t","i","o","n"," ","R","i","s","k">>
\* "Injection Risk"
TypeInjectionRisk == <<"I","n","j","e","c","t","i","o","n"," ","R","i","s","k">>
\* "SQLi Risk"
TypeSqliRisk == <<"S","Q","L","i"," ","R","i","s","k">>
\* " Risk" (leading space: its first split token is the empty string)
TypeLeadingSpace == <<" ","R","i","s","k">>

SuggestParams == "Use parameterized queries"
SuggestEscape == "Escape output"

\* Pattern findings a caller may hand to the merge
PatternFindings ==
  { [id |-> "p", type |-> t, severity |-> "HIGH", line |-> l, column |-> 0,
     message |-> "m",
     suggestion |-> IF t = TypeXss THEN SuggestEscape ELSE SuggestParams,
     confidence |-> c, detectionMethod |-> "PATTERN"] :
      t \in {TypeSqlInjection, TypeXss}, l \in {10, 12}, c \in {60, 90} }

SemanticFinding(t, l, c, s) ==
  [id |-> "ai", type |-> t, severity |-> "HIGH", line |-> l, column |-> 0,
   message |-> "d", suggestion |-> s, confidence |-> c, detectionMethod |-> "AI"]

\* Semantic findings as analyzeWithAI builds them (detectionMethod "AI", column 0)
SemanticFindings ==
  { SemanticFinding(TypeSqlInjectionRisk, 11, 85, "Bind variables"),
    SemanticFinding(TypeSqlInjectionRisk, 13, 95, SuggestParams),
    SemanticFinding(TypeInjectionRisk,    11, 95, ""),
    SemanticFinding(TypeSqliRisk,         11, 85, "Bind variables"),
    SemanticFinding(TypeLeadingSpace,     13, 85, ""),
    SemanticFinding(TypeXss,              14, 95, SuggestEscape) }

SeqsUpTo(S, n) == UNION { [1..k -> S] : k \in 0..n }

----------------------------------------------------------------------------
(* combineAnalysisResults                                                  *)

\* overlap test that compares first tokens by prefix
overlapTest_tokenPrefix(patternVuln, aiVuln) ==
  /\ Abs(patternVuln.line - aiVuln.line) <= 1
  /\ startsWith(splitFirst(toLowerCase(aiVuln.type)),
                splitFirst(toLowerCase(patternVuln.type)))

\* the predicate of patternResults.some(...) for one pattern finding
overlapTest(patternVuln, aiVuln) ==
  /\ Abs(patternVuln.line - aiVuln.line) <= 1
  /\ includes(toLowerCase(patternVuln.type), splitFirst(toLowerCase(aiVuln.type)))

\* const hasOverlap = patternResults.some(...)
hasOverlap(pr, aiVuln) ==
  \E i \in 1..Len(pr) : overlapTest(pr[i], aiVuln)

\* find() that only accepts a finding on the very same line
findTest_sameLine(patternVuln, aiVuln) ==
  patternVuln.line = aiVuln.line

\* the predicate of patternResults.find(...) for one pattern finding
findTest(patternVuln, aiVuln) ==
  Abs(patternVuln.line - aiVuln.line) <= 1

\* index of the object patternResults.find(...) returns, 0 for undefined
overlappingPattern(pr, aiVuln) ==
  IF \E i \in 1..Len(pr) : findTest(pr[i], aiVuln)
  THEN CHOOSE i \in 1..Len(pr) :
         findTest(pr[i], aiVuln) /\ \A k \in 1..(i-1) : ~findTest(pr[k], aiVuln)
  ELSE 0

\* push that keeps the semantic analyser's provenance tag
pushed_keepsMethod(aiVuln) ==
  [aiVuln EXCEPT !.confidence = Min(aiVuln.confidence + 10, 100)]

\* the object pushed for an AI-only finding
pushed(aiVuln) ==
  [aiVuln EXCEPT !.detectionMethod = "HYBRID",
                 !.confidence = Min(aiVuln.confidence + 10, 100)]

\* boost without the cap at 100
boosted_noCap(p, aiVuln) ==
  [p EXCEPT !.confidence = p.confidence + 15,
            !.detectionMethod = "HYBRID",
            !.suggestion =
               IF aiVuln.suggestion # "" /\ aiVuln.suggestion # p.suggestion
               THEN p.suggestion \o " AI suggests: " \o aiVuln.suggestion
               ELSE p.suggestion]

\* the in-place update of the overlapping pattern finding
boosted(p, aiVuln) ==
  [p EXCEPT !.confidence = Min(p.confidence + 15, 100),
            !.detectionMethod = "HYBRID",
            !.suggestion =
               IF aiVuln.suggestion # "" /\ aiVuln.suggestion # p.suggestion
               THEN p.suggestion \o " AI suggests: " \o aiVuln.suggestion
               ELSE p.suggestion]

\* forEach body that puts an AI-only finding in front of the earlier ones
forEachStep_unshift(acc, aiVuln) ==
  IF ~hasOverlap(acc.objs, aiVuln)
  THEN [acc EXCEPT !.tail = <<pushed(aiVuln)>> \o acc.tail]
  ELSE LET i == overlappingPattern(acc.objs, aiVuln) IN
       IF i # 0
       THEN [acc EXCEPT !.objs[i] = boosted(acc.objs[i], aiVuln)]
       ELSE acc

\* one iteration of aiResults.forEach: acc = [objs |-> the pattern objects,
\* tail |-> what has been pushed onto combined after them]
forEachStep(acc, aiVuln) ==
  IF ~hasOverlap(acc.objs, aiVuln)
  THEN [acc EXCEPT !.tail = Append(acc.tail, pushed(aiVuln))]
  ELSE LET i == overlappingPattern(acc.objs, aiVuln) IN
       IF i # 0
       THEN [acc EXCEPT !.objs[i] = boosted(acc.objs[i], aiVuln)]
       ELSE acc

RECURSIVE forEachAi(_, _, _)
forEachAi(acc, S, k) ==
  IF k > Len(S) THEN acc
  ELSE forEachAi(forEachStep(acc, S[k]), S, k + 1)

\* merge that drops a pattern finding once a semantic finding corroborated it
combineAnalysisResults_dropsCorroborated(P, S) ==
  LET acc == forEachAi([objs |-> P, tail |-> <<>>], S, 1) IN
  [patternResults |-> acc.objs,
   combined |-> SelectSeq(acc.objs, LAMBDA f : f.detectionMethod # "HYBRID") \o acc.tail]

\* merge that tags every finding it returns as hybrid
combineAnalysisResults_tagsAll(P, S) ==
  LET acc == forEachAi([objs |-> P, tail |-> <<>>], S, 1)
      tagged == [i \in 1..Len(acc.objs) |-> [acc.objs[i] EXCEPT !.detectionMethod = "HYBRID"]]
  IN [patternResults |-> tagged, combined |-> tagged \o acc.tail]

\* combined = [...patternResults] holds the same objects as patternResults, so
\* what the caller sees afterwards is both the returned array and its own
\* (mutated) patternResults
combineAnalysisResults(P, S) ==
  LET acc == forEachAi([objs |-> P, tail |-> <<>>], S, 1) IN
  [patternResults |-> acc.objs, combined |-> acc.objs \o acc.tail]

----------------------------------------------------------------------------
(* Source lines and file names of the scans                                *)

Blank      == " "
SlashSlash == "//"
Quote      == "\""
Credential == "password = \"admin123\""

\* the lexemes the scanned lines are written in
LineLexemes == {Blank, SlashSlash, "md5", "eval(", "test", "SELECT", "+", Quote,
                "userId", Credential}

SlashStar == "/*"
Hash      == "#"

\* lexemes that occur only in lines handed to calculateConfidence directly
ConfidenceLexemes == {SlashStar, Hash, "Mock", "contest"}

\* the characters of each lexeme
characters ==
  (Blank :> <<" ">>) @@
  (SlashSlash :> <<"/","/">>) @@
  ("md5" :> <<"m","d","5">>) @@
  ("eval(" :> <<"e","v","a","l","(">>) @@
  ("test" :> <<"t","e","s","t">>) @@
  ("SELECT" :> <<"S","E","L","E","C","T">>) @@
  ("+" :> <<"+">>) @@
  (Quote :> <<"\"">>) @@
  ("userId" :> <<"u","s","e","r","I","d">>) @@
  (Credential :> <<"p","a","s","s","w","o","r","d"," ","="," ","\"","a","d","m","i","n","1","2","3","\"">>) @@
  (SlashStar :> <<"/","*">>) @@
  (Hash :> <<"#">>) @@
  ("Mock" :> <<"M","o","c","k">>) @@
  ("contest" :> <<"c","o","n","t","e","s","t">>)

\* the text of a line: its lexemes' characters, joined
RECURSIVE textOf(_)
textOf(line) ==
  IF line = <<>> THEN <<>> ELSE characters[Head(line)] \o textOf(Tail(line))

\* lexemes containing a character that ['"] matches
QuoteLexemes == {Quote, Credential}

\* The scanned lines.  Word lexemes are kept apart by non-word lexemes, so a
\* \b in a pattern holds wherever the lexeme occurs.
Lines ==
  { <<>>,
    <<"md5", Blank, "md5">>,
    <<SlashSlash, Blank, "md5">>,
    <<"eval(", "md5", Blank, "test">>,
    <<"SELECT", Blank, "+", Blank, Quote>>,
    <<Quote, "SELECT", Blank, Quote, Blank, "+", Blank, "userId">>,
    <<Blank, Credential>> }

\* code.split('\n') of the scanned texts: at least one line ("" splits into [""])
Codes == UNION { [1..k -> Lines] : k \in 1..MaxLines }

\* fileName.split('.') of the scanned file names
FileNames == { <<"app", "js">>, <<"Main", "PY">>, <<"README">>, <<"a", "constructor">> }

----------------------------------------------------------------------------
(* VULNERABILITY_PATTERNS.  name is the character sequence of the entry's  *)
(* name; pattern is the entry's regular expression over LineLexemes:       *)
(* pattern[1] is the set of lexemes its head matches, pattern[k+1] the set *)
(* of lexemes the part after its k-th ".*" matches.  An empty set: no      *)
(* lexeme of LineLexemes matches that part.                                *)

SqlWords == {"SELECT"}

VULNERABILITY_PATTERNS == <<
  [id |-> "sql_injection_1", description |-> "SQL query constructed using string concatenation, vulnerable to SQL injection",
   severity |-> "CRITICAL",
   name |-> <<"S","Q","L"," ","I","n","j","e","c","t","i","o","n"," ","-"," ","S","t","r","i","n","g"," ","C","o","n","c","a","t","e","n","a","t","i","o","n">>,
   pattern |-> <<SqlWords, {"+"}, QuoteLexemes>>,
   suggestion |-> "Use parameterized queries or prepared statements instead of string concatenation",
   languages |-> {"javascript", "typescript", "php", "python", "java", "c#"}],
  [id |-> "sql_injection_2", description |-> "SQL query using template literals with variables, vulnerable to SQL injection",
   severity |-> "CRITICAL",
   name |-> <<"S","Q","L"," ","I","n","j","e","c","t","i","o","n"," ","-"," ","T","e","m","p","l","a","t","e"," ","L","i","t","e","r","a","l","s">>,
   pattern |-> <<SqlWords, {}, {}>>,
   suggestion |-> "Use parameterized queries instead of template literals for SQL queries",
   languages |-> {"javascript", "typescript"}],
  [id |-> "sql_injection_3", description |-> "Dynamic SQL query construction detected",
   severity |-> "CRITICAL",
   name |-> <<"S","Q","L"," ","I","n","j","e","c","t","i","o","n"," ","-"," ","D","y","n","a","m","i","c"," ","Q","u","e","r","y"," ","B","u","i","l","d","i","n","g">>,
   pattern |-> <<{}, {"+"}>>,
   suggestion |-> "Use ORM methods or parameterized queries",
   languages |-> {"javascript", "typescript", "python", "java"}],
  [id |-> "xss_1", description |-> "Direct assignment to innerHTML without sanitization",
   severity |-> "HIGH",
   name |-> <<"X","S","S"," ","-"," ","i","n","n","e","r","H","T","M","L"," ","A","s","s","i","g","n","m","e","n","t">>,
   pattern |-> <<{}>>,
   suggestion |-> "Use textContent instead of innerHTML, or sanitize input with a library like DOMPurify",
   languages |-> {"javascript", "typescript"}],
  [id |-> "xss_2", description |-> "Using document.write() which can lead to XSS vulnerabilities",
   severity |-> "HIGH",
   name |-> <<"X","S","S"," ","-"," ","D","o","c","u","m","e","n","t"," ","W","r","i","t","e">>,
   pattern |-> <<{}>>,
   suggestion |-> "Use safer DOM manipulation methods like createElement and appendChild",
   languages |-> {"javascript", "typescript"}],
  [id |-> "xss_3", description |-> "Using eval() function which can execute arbitrary code",
   severity |-> "CRITICAL",
   name |-> <<"X","S","S"," ","-"," ","E","v","a","l"," ","F","u","n","c","t","i","o","n">>,
   pattern |-> <<{"eval("}>>,
   suggestion |-> "Avoid using eval(). Use JSON.parse() for JSON data or other safe alternatives",
   languages |-> {"javascript", "typescript", "python"}],
  [id |-> "auth_1", description |-> "Hardcoded credentials found in source code",
   severity |-> "CRITICAL",
   name |-> <<"H","a","r","d","c","o","d","e","d"," ","C","r","e","d","e","n","t","i","a","l","s">>,
   pattern |-> <<{Credential}>>,
   suggestion |-> "Use environment variables or secure credential storage instead of hardcoding sensitive data",
   languages |-> {"javascript", "typescript", "python", "java", "c#", "php"}],
  [id |-> "auth_2", description |-> "Weak password length validation (less than 8 characters)",
   severity |-> "MEDIUM",
   name |-> <<"W","e","a","k"," ","P","a","s","s","w","o","r","d"," ","V","a","l","i","d","a","t","i","o","n">>,
   pattern |-> <<{Credential}, {}>>,
   suggestion |-> "Enforce strong password policies with minimum 8 characters, mixed case, numbers, and symbols",
   languages |-> {"javascript", "typescript", "python", "java", "c#"}],
  [id |-> "auth_3", description |-> "Potentially sensitive operation without authentication check",
   severity |-> "HIGH",
   name |-> <<"M","i","s","s","i","n","g"," ","A","u","t","h","e","n","t","i","c","a","t","i","o","n"," ","C","h","e","c","k">>,
   pattern |-> <<{}, {"eval("}>>,
   suggestion |-> "Add proper authentication and authorization checks before sensitive operations",
   languages |-> {"javascript", "typescript", "python", "java", "c#", "php"}],
  [id |-> "crypto_1", description |-> "Use of weak or deprecated cryptographic algorithm",
   severity |-> "HIGH",
   name |-> <<"W","e","a","k"," ","C","r","y","p","t","o","g","r","a","p","h","i","c"," ","A","l","g","o","r","i","t","h","m">>,
   pattern |-> <<{"md5"}>>,
   suggestion |-> "Use strong cryptographic algorithms like SHA-256, AES-256, or bcrypt for hashing",
   languages |-> {"javascript", "typescript", "python", "java", "c#", "php"}],
  [id |-> "crypto_2", description |-> "Hardcoded encryption key detected",
   severity |-> "CRITICAL",
   name |-> <<"H","a","r","d","c","o","d","e","d"," ","E","n","c","r","y","p","t","i","o","n"," ","K","e","y">>,
   pattern |-> <<{}, {}>>,
   suggestion |-> "Use secure key management systems and never hardcode encryption keys",
   languages |-> {"javascript", "typescript", "python", "java", "c#", "php"}],
  [id |-> "input_1", description |-> "Direct use of user input without validation",
   severity |-> "MEDIUM",
   name |-> <<"M","i","s","s","i","n","g"," ","I","n","p","u","t"," ","V","a","l","i","d","a","t","i","o","n">>,
   pattern |-> <<{}>>,
   suggestion |-> "Validate and sanitize all user inputs before processing",
   languages |-> {"javascript", "typescript"}],
  [id |-> "input_2", description |-> "Potential path traversal vulnerability",
   severity |-> "HIGH",
   name |-> <<"P","a","t","h"," ","T","r","a","v","e","r","s","a","l"," ","R","i","s","k">>,
   pattern |-> <<{}>>,
   suggestion |-> "Validate file paths and restrict access to allowed directories only",
   languages |-> {"javascript", "typescript", "python", "java", "c#", "php"}],
  [id |-> "file_1", description |-> "File upload without proper restrictions",
   severity |-> "HIGH",
   name |-> <<"U","n","r","e","s","t","r","i","c","t","e","d"," ","F","i","l","e"," ","U","p","l","o","a","d">>,
   pattern |-> <<{}>>,
   suggestion |-> "Implement file type validation, size limits, and virus scanning for uploads",
   languages |-> {"javascript", "typescript"}],
  [id |-> "info_1", description |-> "Potential information disclosure through error messages",
   severity |-> "MEDIUM",
   name |-> <<"E","r","r","o","r"," ","I","n","f","o","r","m","a","t","i","o","n"," ","D","i","s","c","l","o","s","u","r","e">>,
   pattern |-> <<{}>>,
   suggestion |-> "Log detailed errors server-side but return generic error messages to users",
   languages |-> {"javascript", "typescript", "python", "java", "c#"}],
  [id |-> "session_1", description |-> "Insecure session cookie configuration",
   severity |-> "MEDIUM",
   name |-> <<"I","n","s","e","c","u","r","e"," ","S","e","s","s","i","o","n"," ","C","o","n","f","i","g","u","r","a","t","i","o","n">>,
   pattern |-> <<{}, {}>>,
   suggestion |-> "Set secure: true and httpOnly: true for session cookies in production",
   languages |-> {"javascript", "typescript"}],
  [id |-> "cors_1", description |-> "Overly permissive CORS policy",
   severity |-> "MEDIUM",
   name |-> <<"P","e","r","m","i","s","s","i","v","e"," ","C","O","R","S"," ","P","o","l","i","c","y">>,
   pattern |-> <<{}, {}>>,
   suggestion |-> "Restrict CORS to specific trusted domains instead of allowing all origins",
   languages |-> {"javascript", "typescript"}] >>

Registry == 1..Len(VULNERABILITY_PATTERNS)

----------------------------------------------------------------------------
(* Regular-expression matching on a line (a sequence of lexemes).          *)
(* Positions are lexeme offsets, 0-based as in JavaScript.                 *)

\* Greedy match of pattern parts k.. of pat, each located after offset `after`
\* (1-based index of the previous part): the 1-based index where the match
\* ends, 0 when the parts cannot be matched.  ".*" is greedy, so each part
\* takes the last place that still lets the rest match.
RECURSIVE greedyEnd(_, _, _, _)
greedyEnd(line, pat, k, after) ==
  IF k > Len(pat) THEN after
  ELSE LET J == { j \in (after + 1)..Len(line) :
                    line[j] \in pat[k] /\ greedyEnd(line, pat, k + 1, j) # 0 }
       IN IF J = {} THEN 0
          ELSE greedyEnd(line, pat, k + 1, CHOOSE j \in J : \A m \in J : m <= j)

\* RegExp.prototype.exec of a g-flag expression: the search starts at
\* lastIndex; a match leaves lastIndex at its end, a failure resets it to 0
regExpExec(line, pat, li) ==
  LET starts == { i \in (li + 1)..Len(line) :
                    line[i] \in pat[1] /\ greedyEnd(line, pat, 2, i) # 0 }
  IN IF starts = {}
     THEN [found |-> FALSE, text |-> <<>>, lastIndex |-> 0]
     ELSE LET i == CHOOSE s \in starts : \A m \in starts : s <= m
              e == greedyEnd(line, pat, 2, i)
          IN [found |-> TRUE, text |-> SubSeq(line, i, e), lastIndex |-> e]

RECURSIVE execLoop(_, _, _, _)
execLoop(line, pat, li, acc) ==
  LET r == regExpExec(line, pat, li) IN
  IF r.found THEN execLoop(line, pat, r.lastIndex, Append(acc, r.text))
  ELSE [matches |-> acc, lastIndex |-> r.lastIndex]

\* one regexp.exec(line) in place of line.match(regexp): the search starts at
\* the lastIndex an earlier use left and leaves its own behind
stringMatch_exec(line, pat, li) ==
  LET r == regExpExec(line, pat, li) IN
  [matches |-> IF r.found THEN <<r.text>> ELSE <<>>, lastIndex |-> r.lastIndex]

\* regexp.test(line) in place of line.match(regexp), the line reported as
\* the match: test starts at the lastIndex an earlier use left and leaves
\* its own behind
stringMatch_test(line, pat, li) ==
  LET r == regExpExec(line, pat, li) IN
  [matches |-> IF r.found THEN <<line>> ELSE <<>>, lastIndex |-> r.lastIndex]

\* line.match(regexp) for a g-flag expression whose lastIndex is li: lastIndex
\* is set to 0 first, exec is repeated until it fails; the result holds the
\* matched texts only (an empty result stands for null)
stringMatch(line, pat, li) == execLoop(line, pat, 0, <<>>)

\* line.indexOf(match) in lexemes: offset of the first occurrence, -1 if none
indexOfLexemes(line, text) ==
  LET at == { i \in 0..(Len(line) - Len(text)) :
                SubSeq(line, i + 1, i + Len(text)) = text }
  IN IF at = {} THEN 0 - 1 ELSE CHOOSE i \in at : \A m \in at : i <= m

\* number of characters in the first n lexemes of line
RECURSIVE charsBefore(_, _)
charsBefore(line, n) ==
  IF n <= 0 THEN 0 ELSE charsBefore(line, n - 1) + Len(line[n])

\* line.indexOf(match) in characters
indexOf(line, text) ==
  LET i == indexOfLexemes(line, text) IN
  IF i < 0 THEN 0 - 1 ELSE charsBefore(line, i)

----------------------------------------------------------------------------
(* calculateConfidence                                                     *)

\* line.trim(), as far as startsWith looks: leading whitespace removed
\* String.prototype.trim: white space removed at both ends
RECURSIVE trim(_)
trim(s) ==
  IF s = <<>> THEN s
  ELSE IF Head(s) = " " THEN trim(Tail(s))
  ELSE IF s[Len(s)] = " " THEN trim(SubSeq(s, 1, Len(s) - 1))
  ELSE s

\* line.trim().startsWith('//') || startsWith('/*') || startsWith('#')
startsWithComment(line) ==
  LET t == trim(textOf(line)) IN
  \/ startsWith(t, <<"/","/">>)
  \/ startsWith(t, <<"/","*">>)
  \/ startsWith(t, <<"#">>)

\* line.toLowerCase().includes('test') || ...includes('mock')
looksLikeTest(line) ==
  LET lower == toLowerCase(textOf(line)) IN
  \/ includes(lower, <<"t","e","s","t">>)
  \/ includes(lower, <<"m","o","c","k">>)

\* severities compared in lower case: no registry entry gets a bonus
severityBonus_lowerCase(severity) ==
  IF severity = "critical" THEN 20
  ELSE IF severity = "high" THEN 15
  ELSE IF severity = "medium" THEN 10
  ELSE 0

severityBonus(severity) ==
  IF severity = "CRITICAL" THEN 20
  ELSE IF severity = "HIGH" THEN 15
  ELSE IF severity = "MEDIUM" THEN 10
  ELSE 0

\* base confidence 80: the upper limit cuts the critical non-comment case
confidenceOf_base80(severity, inComment, inTest) ==
  Min(100, Max(30, 80 + (IF severity = "CRITICAL" THEN 20
                         ELSE IF severity = "HIGH" THEN 15
                         ELSE IF severity = "MEDIUM" THEN 10 ELSE 0)
                      + (IF ~inComment THEN 10 ELSE 0)
                      - (IF inTest THEN 20 ELSE 0)))

confidenceOf(severity, inComment, inTest) ==
  Min(100, Max(30, 70 + severityBonus(severity)
                      + (IF ~inComment THEN 10 ELSE 0)
                      - (IF inTest THEN 20 ELSE 0)))

calculateConfidence(pattern, match, line) ==
  confidenceOf(pattern.severity, startsWithComment(line), looksLikeTest(line))

\* a registry-shaped entry of the remaining severity of the Vulnerability type
LowPattern ==
  [id |-> "low_1", description |-> "d", severity |-> "LOW", name |-> <<"L","o","w">>,
   pattern |-> <<{"md5"}>>, suggestion |-> "s", languages |-> {"javascript"}]

\* the entries calculateConfidence is applied to
ConfidencePatterns == { VULNERABILITY_PATTERNS[i] : i \in Registry } \cup {LowPattern}

\* the lines calculateConfidence is applied to
ConfidenceLines ==
  Lines \cup
  { <<Blank, SlashStar, "md5">>,
    <<Hash, Blank, "md5">>,
    <<"md5", Blank, SlashSlash>>,
    <<"Mock", "md5">>,
    <<SlashSlash, "contest">>,
    <<Blank, Hash, "Mock", Blank>> }

NoConfidenceCall == [pattern |-> "", severity |-> "", line |-> <<>>, confidence |-> 0]

----------------------------------------------------------------------------
(* getVulnerabilityTypeDescription, getVulnerabilityTypeSuggestion         *)

\* VULNERABILITY_PATTERNS.find(p => p.name === type): the index of the first
\* entry of that name, 0 for undefined
findByName(type) ==
  LET named == { i \in Registry : VULNERABILITY_PATTERNS[i].name = type }
  IN IF named = {} THEN 0 ELSE CHOOSE i \in named : \A k \in named : i <= k

getVulnerabilityTypeDescription(type) ==
  LET i == findByName(type) IN
  IF i = 0 \/ VULNERABILITY_PATTERNS[i].description = ""
    THEN "Unknown vulnerability type"
    ELSE VULNERABILITY_PATTERNS[i].description

getVulnerabilityTypeSuggestion(type) ==
  LET i == findByName(type) IN
  IF i = 0 \/ VULNERABILITY_PATTERNS[i].suggestion = ""
    THEN "Review and fix this security issue"
    ELSE VULNERABILITY_PATTERNS[i].suggestion

NoLookup == [function |-> "", type |-> <<>>, result |-> ""]

\* the type names looked up: a registry name and one that is no entry's name
LookupTypes == {VULNERABILITY_PATTERNS[1].name, TypeXss}

----------------------------------------------------------------------------
(* detectPatterns                                                          *)

languageMap ==
  [ext \in {"js", "jsx", "ts", "tsx", "py", "java", "cs", "php"} |->
     CASE ext \in {"js", "jsx"} -> "javascript"
       [] ext \in {"ts", "tsx"} -> "typescript"
       [] ext = "py"   -> "python"
       [] ext = "java" -> "java"
       [] ext = "cs"   -> "c#"
       [] ext = "php"  -> "php"]

\* toLowerCase of the file-name parts that occur in FileNames
lowerExt(part) ==
  CASE part = "PY" -> "py"
    [] part = "README" -> "readme"
    [] OTHER -> part

\* fileName.split('.').pop()?.toLowerCase() || ''
fileExtension(fileName) ==
  IF fileName = <<>> THEN "" ELSE lowerExt(fileName[Len(fileName)])

\* keys every object literal inherits: languageMap[key] is a function or an
\* object, which is truthy and equal to no language name
InheritedKeys == {"constructor", "toString", "valueOf", "hasOwnProperty", "__proto__"}

\* languageMap[fileExtension] || 'unknown'
currentLanguage(fileName) ==
  LET ext == fileExtension(fileName) IN
  IF ext \in DOMAIN languageMap THEN languageMap[ext]
  ELSE IF ext \in InheritedKeys THEN "[inherited]"
  ELSE "unknown"

\* no filter: every registry entry
applicablePatterns_all(fileName) == [i \in Registry |-> i]

\* indices of VULNERABILITY_PATTERNS.filter(...), in registry order
applicablePatterns(fileName) ==
  LET lang == currentLanguage(fileName) IN
  SelectSeq([i \in Registry |-> i],
            LAMBDA i : \/ lang \in VULNERABILITY_PATTERNS[i].languages
                       \/ "all" \in VULNERABILITY_PATTERNS[i].languages)

\* the object pushed for one match
finding(pattern, lineIndex, line, match) ==
  LET columnIndex == indexOf(line, match) IN
  [id |-> pattern.id \o "_" \o ToString(lineIndex) \o "_" \o ToString(columnIndex),
   type |-> pattern.name,
   severity |-> pattern.severity,
   line |-> lineIndex + 1,
   column |-> columnIndex,
   message |-> pattern.description,
   suggestion |-> pattern.suggestion,
   confidence |-> calculateConfidence(pattern, match, line),
   detectionMethod |-> "PATTERN"]

\* What registry expression p yields on lines 1..n of one call that started
\* with its lastIndex at li0: element i is the result of line i's
\* line.match(pattern.pattern), run with the lastIndex the earlier lines left
RECURSIVE lineMatches(_, _, _, _)
lineMatches(lines, p, li0, n) ==
  IF n = 0 THEN <<>>
  ELSE LET earlier == lineMatches(lines, p, li0, n - 1)
           li == IF n = 1 THEN li0 ELSE earlier[n - 1].lastIndex
       IN Append(earlier, stringMatch(lines[n], VULNERABILITY_PATTERNS[p].pattern, li))

\* loops nested the other way round: every line is run through one pattern
\* before the next pattern starts
pushedBefore_patternMajor(u, t) ==
  \/ u[2] < t[2]
  \/ u[2] = t[2] /\ u[1] < t[1]
  \/ u[2] = t[2] /\ u[1] = t[1] /\ u[3] < t[3]

\* the order in which the three nested forEach loops reach two pushes;
\* <<n, k, m>> is the m-th match of the k-th applicable pattern on line n
pushedBefore(u, t) ==
  \/ u[1] < t[1]
  \/ u[1] = t[1] /\ u[2] < t[2]
  \/ u[1] = t[1] /\ u[2] = t[2] /\ u[3] < t[3]

\* detectPatterns(code, fileName) run with the registry expressions' lastIndex
\* as li: [out |-> the returned array, li |-> lastIndex afterwards]
detectPatterns(code, fileName, li) ==
  LET app == applicablePatterns(fileName)
      res == <<>> \o [k \in 1..Len(app) |-> lineMatches(code, app[k], li[app[k]], Len(code))]
      all == UNION { { <<n, k, m>> : m \in 1..Len(res[k][n].matches) } :
                       n \in 1..Len(code), k \in 1..Len(app) }
      nth(i) == CHOOSE t \in all : Cardinality({ u \in all : pushedBefore(u, t) }) = i - 1
  IN [out |-> [i \in 1..Cardinality(all) |->
                 LET t == nth(i) IN
                 finding(VULNERABILITY_PATTERNS[app[t[2]]], t[1] - 1, code[t[1]],
                         res[t[2]][t[1]].matches[t[3]])],
      li  |-> [p \in Registry |->
                 IF \E k \in 1..Len(app) : app[k] = p
                 THEN res[CHOOSE k \in 1..Len(app) : app[k] = p][Len(code)].lastIndex
                 ELSE li[p]]]

\* Values a JavaScript caller may pass for a string parameter: a string (its
\* text as the model writes strings) or no string at all
String(text) == [type |-> "string", text |-> text]
NonStrings == { [type |-> ty, text |-> <<>>] : ty \in {"undefined", "null", "number"} }

\* value.split is callable: undefined and null have no properties, a number
\* has no split
hasSplit(value) == value.type = "string"

\* a detectPatterns call on arbitrary values: thrown is the exception that
\* leaves the call, "none" when it returns
detectPatternsCall(code, fileName, li) ==
  IF ~hasSplit(code) \/ ~hasSplit(fileName)
    THEN [thrown |-> "TypeError", out |-> <<>>, li |-> li]
    ELSE [thrown |-> "none"] @@ detectPatterns(code.text, fileName.text, li)

----------------------------------------------------------------------------
(* calculateFallbackScore, both variants.  A number is [nan, v]: nan tells *)
(* that the JavaScript value is NaN, v is the value otherwise.  Finding    *)
(* confidences are in hundredths (0.8 is 80), the server score is in       *)
(* tenths of a point (10.0 is 100), the Gemini score in points.            *)

Num(v) == [nan |-> FALSE, v |-> v]
NaN == [nan |-> TRUE, v |-> 0]

\* weights[vuln.severity]: undefined (here NaN once used in arithmetic) for a
\* severity that is no key of weights
weights(severity) ==
  CASE severity = "critical" -> Num(25)
    [] severity = "high"     -> Num(15)
    [] severity = "medium"   -> Num(8)
    [] severity = "low"      -> Num(3)
    [] OTHER                 -> NaN

\* vuln.confidence || 0.8, in hundredths
confidenceOrDefault(confidence) == IF confidence = 0 THEN 80 ELSE confidence

\* the for-loop of the server variant: penalty in hundredths
RECURSIVE serverPenalty(_, _)
serverPenalty(vulns, n) ==
  IF n = 0 THEN Num(0)
  ELSE LET rest == serverPenalty(vulns, n - 1)
           w == weights(vulns[n].severity)
       IN IF rest.nan \/ w.nan THEN NaN
          ELSE Num(rest.v + w.v * confidenceOrDefault(vulns[n].confidence))

\* Math.round(x * 10) / 10 for x given in thousandths: the result in tenths
\* (Math.round rounds half up)
roundTenths(thousandths) == (thousandths + 50) \div 100

\* no early return, the penalty averaged over the findings: 0 / 0 for none
calculateFallbackScoreServer_averaged(vulns) ==
  IF Len(vulns) = 0 THEN NaN
  ELSE LET penalty == serverPenalty(vulns, Len(vulns)) IN
       IF penalty.nan THEN NaN
       ELSE Num(roundTenths(Max(0, 10000 - penalty.v \div Len(vulns))))

\* server/storage.ts calculateFallbackScore, result in tenths
calculateFallbackScoreServer(vulns) ==
  IF Len(vulns) = 0 THEN Num(100)
  ELSE LET penalty == serverPenalty(vulns, Len(vulns)) IN
       IF penalty.nan THEN NaN
       ELSE Num(roundTenths(Max(0, 10000 - penalty.v)))

\* the reduce of the Gemini variant
RECURSIVE geminiPenalty(_, _)
geminiPenalty(vulns, n) ==
  IF n = 0 THEN Num(0)
  ELSE LET rest == geminiPenalty(vulns, n - 1)
           w == weights(vulns[n].severity)
       IN IF rest.nan \/ w.nan THEN NaN ELSE Num(rest.v + w.v)

\* unnamed/part_001 calculateFallbackScore, result in points
calculateFallbackScoreGemini(vulns) ==
  LET penalty == geminiPenalty(vulns, Len(vulns)) IN
  IF penalty.nan THEN NaN ELSE Num(Max(0, 100 - penalty.v))

\* findings a model response may carry: severity and confidence are not
\* validated before the server variant scores them
ScoredFindings ==
  { [severity |-> s, confidence |-> c] :
      s \in {"critical", "high", "medium", "low", "info"},
      c \in {0 - 100, 0, 50, 100} }

NoScore == [variant |-> "none", nan |-> FALSE, v |-> 0]

----------------------------------------------------------------------------
(* analyzeCodeSecurity, both variants.  What the model service did on a    *)
(* call is a record: kind tells how far the call got ("nokey": no          *)
(* GEMINI_API_KEY in the environment; "rejects": the request failed;       *)
(* "nochoice": the reply has no choices[0]; "empty": the reply's content   *)
(* is empty; "unparsable": JSON.parse throws; "null": the content is the   *)
(* JSON text null; "object": the content parsed to an object) and, for an  *)
(* object, its vulnerabilities (an array or not), its securityScore (a     *)
(* number, in the unit of the variant's score, or absent) and its summary  *)
(* (an object or absent).  Of a finding the model keeps the two fields the *)
(* score and the summary read: severity and confidence.                    *)

KnownSeverity == {"low", "medium", "high", "critical"}

NoSummary == [critical |-> 0, high |-> 0, medium |-> 0, low |-> 0]

NoResponse ==
  [kind |-> "none",
   vulnerabilities |-> [isArray |-> FALSE, items |-> <<>>],
   securityScore |-> [isNumber |-> FALSE, v |-> 0],
   summary |-> [present |-> FALSE, value |-> NoSummary]]

Failure(kind) == [NoResponse EXCEPT !.kind = kind]

\* how a call settled: rejected, resolved to null, or resolved to an object
NoAnalysis ==
  [variant |-> "none", rejected |-> FALSE, null |-> TRUE, vulnerabilities |-> <<>>,
   securityScore |-> Num(0), summary |-> NoSummary]

\* return null
Null(variant) == [NoAnalysis EXCEPT !.variant = variant]

\* catch block that lets the error escape: the call rejects
serverCaught_rethrows(variant) ==
  [NoAnalysis EXCEPT !.variant = variant, !.rejected = TRUE]

\* the catch block of a server call: the error is logged, the call returns null
serverCaught(variant) == Null(variant)

\* vulnerabilities.filter(v => v.severity === s).length
countSeverity(vulns, s) ==
  Cardinality({i \in 1..Len(vulns) : vulns[i].severity = s})

\* the summary object both variants build from a finding list
summaryOf(vulns) ==
  [critical |-> countSeverity(vulns, "critical"),
   high     |-> countSeverity(vulns, "high"),
   medium   |-> countSeverity(vulns, "medium"),
   low      |-> countSeverity(vulns, "low")]

\* score kept whenever the response carries a number, in range or not
serverScore_keepsAnyNumber(r, vulns) ==
  IF ~r.securityScore.isNumber
    THEN calculateFallbackScoreServer(vulns)
    ELSE Num(r.securityScore.v)

\* storage.ts: the response's score unless it is no number in 0..10
serverScore(r, vulns) ==
  IF \/ ~r.securityScore.isNumber
     \/ r.securityScore.v < 0
     \/ r.securityScore.v > 100
    THEN calculateFallbackScoreServer(vulns)
    ELSE Num(r.securityScore.v)

\* storage.ts analyzeCodeSecurity: every failure inside the try block is
\* caught and turned into null; the parsed object is patched and returned
analyzeCodeSecurityServer(r) ==
  IF r.kind # "object" THEN serverCaught("server")
  ELSE LET vulns == IF r.vulnerabilities.isArray
                      THEN r.vulnerabilities.items ELSE <<>>
       IN [variant |-> "server", rejected |-> FALSE, null |-> FALSE,
           vulnerabilities |-> vulns,
           securityScore |-> serverScore(r, vulns),
           summary |-> IF r.summary.present
                         THEN r.summary.value ELSE summaryOf(vulns)]

\* part_001: one element of the normalising map
normalized(vuln) ==
  [severity |-> IF vuln.severity \in KnownSeverity
                  THEN vuln.severity ELSE "medium",
   confidence |-> Max(0, Min(100, confidenceOrDefault(vuln.confidence)))]

\* Math.max(0, Math.min(100, x))
clamp100(x) == IF x.nan THEN NaN ELSE Num(Max(0, Min(100, x.v)))

\* part_001: analysis.securityScore || calculateFallbackScore(vulnerabilities),
\* clamped
geminiScore(r, vulns) ==
  clamp100(IF ~r.securityScore.isNumber \/ r.securityScore.v = 0
             THEN calculateFallbackScoreGemini(vulns)
             ELSE Num(r.securityScore.v))

\* part_001 analyzeCodeSecurity
analyzeCodeSecurityGemini(r) ==
  IF r.kind # "object" THEN Null("gemini")
  ELSE LET vulns == IF r.vulnerabilities.isArray
                      THEN <<>> \o [i \in 1..Len(r.vulnerabilities.items) |->
                                      normalized(r.vulnerabilities.items[i])]
                      ELSE <<>>
       IN [variant |-> "gemini", rejected |-> FALSE, null |-> FALSE,
           vulnerabilities |-> vulns,
           securityScore |-> geminiScore(r, vulns),
           summary |-> summaryOf(vulns)]

\* server/aiAnalysis.ts AIVulnerabilityAnalyzer.analyzeCode: the parsed
\* content is returned as it is (null for the JSON text null), every error
\* inside the try block becomes null.  Of the returned object the record
\* keeps the vulnerabilities.
analyzeCode(r) ==
  CASE r.kind = "object" ->
         [variant |-> "analyzeCode", rejected |-> FALSE, null |-> FALSE,
          vulnerabilities |-> r.vulnerabilities.items,
          securityScore |-> Num(0), summary |-> NoSummary]
    [] r.kind = "null" -> Null("analyzeCode")
    [] OTHER -> serverCaught("analyzeCode")

\* findings a reply may list
ReplyFindings ==
  { [severity |-> s, confidence |-> c] :
      s \in {"critical", "low", "info"}, c \in {0, 50} }

\* summaries a reply may carry
ReplySummaries ==
  { [present |-> FALSE, value |-> NoSummary],
    [present |-> TRUE,  value |-> NoSummary],
    [present |-> TRUE,  value |-> [critical |-> 1, high |-> 0, medium |-> 0, low |-> 1]] }

\* scores a reply may carry
ReplyScores ==
  { [isNumber |-> FALSE, v |-> 0] } \cup
  { [isNumber |-> TRUE, v |-> v] : v \in {0 - 10, 0, 30, 100, 120} }

Objects ==
  { [kind |-> "object", vulnerabilities |-> vs, securityScore |-> sc, summary |-> sm] :
      vs \in { [isArray |-> FALSE, items |-> <<>>] } \cup
             { [isArray |-> TRUE, items |-> l] : l \in SeqsUpTo(ReplyFindings, MaxScored) },
      sc \in ReplyScores,
      sm \in ReplySummaries }

ServerResponses ==
  Objects \cup { Failure(k) : k \in {"rejects", "nochoice", "empty", "unparsable", "null"} }

GeminiResponses ==
  Objects \cup { Failure(k) : k \in {"nokey", "rejects", "unparsable", "null"} }

----------------------------------------------------------------------------
(* analyzeWithAI.  Error messages are sequences of words, so that          *)
(* message.includes("API key") is a search for two adjacent words.  What   *)
(* the service did on a call is a record: kind "network" (fetch rejects),  *)
(* "status" (response.ok is false), "nochoices" (the body has no choices), *)
(* "empty" (the content is empty), "unparsable" (JSON.parse throws; the    *)
(* engine's message quotes the words of the content), "novulns" (the       *)
(* parsed object has no vulnerabilities array), "object".                  *)

ApiKeyText == <<"API", "key">>

NoKeyMessage == <<"OpenAI", "API", "key", "not", "available">>

\* the message of the error raised inside the try block
errorMessage(reply) ==
  CASE reply.kind = "network"    -> <<"Failed", "to", "fetch">>
    [] reply.kind = "status"     -> <<"OpenAI", "API", "error:", "401", "Unauthorized">>
    [] reply.kind = "nochoices"  -> <<"Cannot", "read", "properties", "of", "undefined">>
    [] reply.kind = "empty"      -> <<"Empty", "response", "from", "OpenAI", "API">>
    [] reply.kind = "unparsable" -> <<"Unexpected", "token">> \o reply.content
                                      \o <<"is", "not", "valid", "JSON">>
    [] reply.kind = "novulns"    -> <<"Cannot", "read", "properties", "of", "undefined">>

Resolved(value) == [state |-> "resolved", value |-> value, error |-> <<>>]
Rejected(error) == [state |-> "rejected", value |-> <<>>, error |-> error]

\* catch block that rethrows whatever it caught
caught_rethrowsAll(message) == Rejected(message)

\* the catch block: an error whose message mentions the API key is rethrown,
\* any other becomes the empty array
caught(message) ==
  IF includes(message, ApiKeyText) THEN Rejected(message) ELSE Resolved(<<>>)

\* Math.min(100, Math.max(0, vuln.confidence))
clampConfidence(c) == Min(100, Max(0, c))

\* the object the map builds for element index (0-based) of the reply
converted(fileName, vuln, index) ==
  [id |-> "ai_" \o fileName \o "_" \o ToString(vuln.line) \o "_" \o ToString(index),
   type |-> vuln.type, severity |-> vuln.severity, line |-> vuln.line,
   column |-> 0, message |-> vuln.description, suggestion |-> vuln.suggestion,
   confidence |-> clampConfidence(vuln.confidence), detectionMethod |-> "AI"]

\* how a call analyzeWithAI(code, fileName) settles
analyzeWithAI(hasKey, fileName, reply) ==
  IF ~hasKey THEN Rejected(NoKeyMessage)
  ELSE IF reply.kind = "object"
    THEN Resolved(<<>> \o [i \in 1..Len(reply.vulnerabilities) |->
                             converted(fileName, reply.vulnerabilities[i], i - 1)])
    ELSE caught(errorMessage(reply))

\* elements of a reply's vulnerabilities array
RawVulnerabilities ==
  { [type |-> t, severity |-> "HIGH", line |-> l, description |-> "d",
     suggestion |-> SuggestParams, confidence |-> c] :
      t \in {TypeSqlInjectionRisk, TypeXss}, l \in {1}, c \in {0 - 5, 80, 150} }

Replies ==
  { [kind |-> k, content |-> <<>>, vulnerabilities |-> <<>>] :
      k \in {"network", "status", "nochoices", "empty", "novulns"} } \cup
  { [kind |-> "unparsable", content |-> c, vulnerabilities |-> <<>>] :
      c \in { <<"oops">>, <<"Invalid", "API", "key">> } } \cup
  { [kind |-> "object", content |-> <<>>, vulnerabilities |-> l] :
      l \in SeqsUpTo(RawVulnerabilities, MaxSemantic) }

ClientFileNames == {"app.js", "main.py"}

NoCall ==
  [state |-> "none", value |-> <<>>, error |-> <<>>, hasKey |-> FALSE,
   fileName |-> "", reply |-> [kind |-> "none", content |-> <<>>, vulnerabilities |-> <<>>]]
----------------------------------------------------------------------------
(* A scan that runs the pattern path and a server analyser call side by    *)
(* side and hands both results to the fusion once both are there.          *)

\* replies the service may give to the analyser call of a scan
JoinResponses ==
  { Failure(k) : k \in {"rejects", "nochoice", "empty", "unparsable", "null"} } \cup
  { [Failure("object") EXCEPT !.vulnerabilities = [isArray |-> TRUE, items |-> <<>>]] }

\* source texts of a joined scan: one line each
JoinCodes == { code \in Codes : Len(code) = 1 }

NoJoin ==
  [state |-> "none", which |-> "", code |-> <<>>, fileName |-> <<>>,
   pattern |-> [done |-> FALSE, out |-> <<>>],
   reviewer |-> [pc |-> "idle", response |-> NoResponse, findings |-> <<>>,
                 outcome |-> NoAnalysis],
   result |-> <<>>]

\* the semantic input of the fusion: empty when the analyser yielded null
semanticInput(reviewer) ==
  IF reviewer.outcome.null THEN <<>> ELSE reviewer.findings

----------------------------------------------------------------------------
(* The state machine                                                       *)

\* ids as the producers assign them: by position in the list
withIds(list, prefix) ==
  [i \in 1..Len(list) |-> [list[i] EXCEPT !.id = prefix \o ToString(i)]]

PatternLists  == { withIds(l, "p_")  : l \in SeqsUpTo(PatternFindings, MaxPattern) }
SemanticLists == { withIds(l, "ai_") : l \in SeqsUpTo(SemanticFindings, MaxSemantic) }

\* what the semantic analyser may return for the scanned files (lines 1..3)
AnalyserFindings ==
  { SemanticFinding(TypeSqlInjectionRisk, 1, 95, "Bind variables"),
    SemanticFinding(TypeXss,              2, 85, ""),
    SemanticFinding(TypeInjectionRisk,    3, 95, SuggestEscape) }

AnalyserLists == { withIds(l, "ai_") : l \in SeqsUpTo(AnalyserFindings, MaxSemantic) }

FreshRegistry == [i \in Registry |-> 0]

Init ==
  /\ patternResults \in PatternLists
  /\ aiResults = <<>>
  /\ combined = <<>>
  /\ entry = <<>>
  /\ pc = "input"
  /\ vulnerabilities = <<>>
  /\ scanned = <<>>
  /\ lastIndex = FreshRegistry
  /\ calls = 0
  /\ findingsIn = <<>>
  /\ score = NoScore
  /\ response = NoResponse
  /\ analysis = NoAnalysis
  /\ aiCall = NoCall
  /\ join = NoJoin
  /\ thrown = "none"
  /\ confidenceCall = NoConfidenceCall
  /\ previousCall = NoConfidenceCall
  /\ lookup = NoLookup

\* a call combineAnalysisResults(patternResults, S); once it has returned the
\* caller may call again on the same patternResults array, with no semantic
\* findings
Merge(S) ==
  /\ pc = "input" \/ S = <<>>
  /\ LET r == combineAnalysisResults(patternResults, S) IN
       /\ patternResults' = r.patternResults
       /\ combined' = r.combined
  /\ aiResults' = S
  /\ entry' = patternResults
  /\ pc' = "merged"
  /\ UNCHANGED <<detectVars, scoreVars, reviewVars, helperVars>>

\* a call detectPatterns(code, fileName)
DetectPatterns(code, fileName) ==
  /\ calls < MaxCalls
  /\ LET r == detectPatterns(code, fileName, lastIndex) IN
       /\ vulnerabilities' = r.out
       /\ lastIndex' = r.li
  /\ scanned' = <<code, fileName>>
  /\ calls' = calls + 1

\* the caller scans a file and takes the result as its pattern findings
Scan(code, fileName) ==
  /\ pc = "input"
  /\ scanned = <<>>
  /\ DetectPatterns(code, fileName)
  /\ patternResults' = vulnerabilities'
  /\ UNCHANGED <<aiResults, combined, entry, pc, scoreVars, reviewVars, helperVars>>

\* a scan on its own, by a caller that holds no earlier result
Detect(code, fileName) ==
  /\ scanned = <<>>
  /\ DetectPatterns(code, fileName)
  /\ UNCHANGED <<fusionVars, scoreVars, reviewVars, helperVars>>

\* the caller drops the returned array; the registry stays as the scan left it
Discard ==
  /\ scanned # <<>>
  /\ vulnerabilities' = <<>>
  /\ scanned' = <<>>
  /\ UNCHANGED <<lastIndex, calls, fusionVars, scoreVars, reviewVars, helperVars>>

\* a call calculateConfidence(pattern, match, line); two calls are followed
Calculate(pattern, line) ==
  /\ previousCall = NoConfidenceCall
  /\ confidenceCall' = [pattern |-> pattern.id, severity |-> pattern.severity,
                        line |-> line,
                        confidence |-> calculateConfidence(pattern, <<>>, line)]
  /\ previousCall' = confidenceCall
  /\ UNCHANGED <<fusionVars, detectVars, scoreVars, reviewVars, lookup>>

\* the findings of a scan as the score computation reads them: the
\* confidence (points) in hundredths
scannedFindings(out) ==
  <<>> \o [i \in 1..Len(out) |->
            [severity |-> out[i].severity, confidence |-> out[i].confidence * 100]]

\* the list the last scan returned is handed to calculateFallbackScore
ScoreScanned ==
  /\ scanned # <<>>
  /\ score.variant = "none"
  /\ findingsIn' = vulnerabilities
  /\ score' = [variant |-> "server"] @@
                 calculateFallbackScoreServer(scannedFindings(vulnerabilities))
  /\ UNCHANGED <<fusionVars, detectVars, reviewVars, helperVars>>

\* a call getVulnerabilityTypeDescription(type); one lookup is followed
Describe(type) ==
  /\ lookup = NoLookup
  /\ lookup' = [function |-> "getVulnerabilityTypeDescription", type |-> type,
                result |-> getVulnerabilityTypeDescription(type)]
  /\ UNCHANGED <<fusionVars, detectVars, scoreVars, reviewVars, confidenceCall, previousCall>>

\* a call getVulnerabilityTypeSuggestion(type); one lookup is followed
Suggest(type) ==
  /\ lookup = NoLookup
  /\ lookup' = [function |-> "getVulnerabilityTypeSuggestion", type |-> type,
                result |-> getVulnerabilityTypeSuggestion(type)]
  /\ UNCHANGED <<fusionVars, detectVars, scoreVars, reviewVars, confidenceCall, previousCall>>

ScoreServer(vulns) ==
  /\ score.variant = "none"
  /\ findingsIn' = vulns
  /\ score' = [variant |-> "server"] @@ calculateFallbackScoreServer(vulns)
  /\ UNCHANGED <<fusionVars, detectVars, reviewVars, helperVars>>

ScoreGemini(vulns) ==
  /\ score.variant = "none"
  /\ findingsIn' = vulns
  /\ score' = [variant |-> "gemini"] @@ calculateFallbackScoreGemini(vulns)
  /\ UNCHANGED <<fusionVars, detectVars, reviewVars, helperVars>>

\* a call of the server variant of analyzeCodeSecurity
AnalyzeServer(r) ==
  /\ analysis.variant = "none"
  /\ response' = r
  /\ analysis' = analyzeCodeSecurityServer(r)
  /\ UNCHANGED <<fusionVars, detectVars, scoreVars, aiCall, join, thrown, helperVars>>

\* a call of the Gemini variant of analyzeCodeSecurity
AnalyzeGemini(r) ==
  /\ analysis.variant = "none"
  /\ response' = r
  /\ analysis' = analyzeCodeSecurityGemini(r)
  /\ UNCHANGED <<fusionVars, detectVars, scoreVars, aiCall, join, thrown, helperVars>>

\* a call analyzeWithAI(code, fileName)
AnalyzeWithAI(hasKey, fileName, reply) ==
  /\ aiCall.state = "none"
  /\ aiCall' = [hasKey |-> hasKey, fileName |-> fileName, reply |-> reply]
                  @@ analyzeWithAI(hasKey, fileName, reply)
  /\ UNCHANGED <<fusionVars, detectVars, scoreVars, response, analysis, join, thrown, helperVars>>

\* the caller starts a scan: the analyser request goes out, the pattern path
\* is ready to run
StartScan(which, code, fileName) ==
  /\ join.state = "none"
  /\ join' = [NoJoin EXCEPT !.state = "started", !.which = which,
                            !.code = code, !.fileName = fileName,
                            !.reviewer.pc = "request"]
  /\ UNCHANGED <<fusionVars, detectVars, scoreVars, response, analysis, aiCall, thrown, helperVars>>

\* the pattern path has been started and has not run yet
PatternReady == join.state = "started" /\ ~join.pattern.done

\* the pattern path: one synchronous detectPatterns call
PatternPath ==
  /\ PatternReady
  /\ LET r == detectPatterns(join.code, join.fileName, lastIndex) IN
       /\ join' = [join EXCEPT !.pattern = [done |-> TRUE, out |-> r.out]]
       /\ lastIndex' = r.li
  /\ UNCHANGED <<fusionVars, vulnerabilities, scanned, calls, scoreVars,
                 response, analysis, aiCall, thrown, helperVars>>

\* the awaited request settles: the service replied r (or the request failed)
ReviewerReplies(r, S) ==
  /\ join.state = "started" /\ join.reviewer.pc = "request"
  /\ r.kind = "object" \/ S = <<>>
  /\ join' = [join EXCEPT !.reviewer.pc = "replied", !.reviewer.response = r,
                          !.reviewer.findings = S]
  /\ UNCHANGED <<fusionVars, detectVars, scoreVars, response, analysis, aiCall, thrown, helperVars>>

\* the rest of the analyser call runs and the call settles
ReviewerSettles ==
  /\ join.state = "started" /\ join.reviewer.pc = "replied"
  /\ join' = [join EXCEPT !.reviewer.pc = "settled",
                 !.reviewer.outcome =
                    IF join.which = "analyzeCode"
                      THEN analyzeCode(join.reviewer.response)
                      ELSE analyzeCodeSecurityServer(join.reviewer.response)]
  /\ UNCHANGED <<fusionVars, detectVars, scoreVars, response, analysis, aiCall, thrown, helperVars>>

\* both paths are done and neither failed
FuseReady ==
  /\ join.state = "started" /\ join.pattern.done
  /\ join.reviewer.pc = "settled" /\ ~join.reviewer.outcome.rejected

\* the join: the fusion runs
Fuse ==
  /\ FuseReady
  /\ join' = [join EXCEPT !.state = "fused",
                 !.result = combineAnalysisResults(join.pattern.out,
                                                   semanticInput(join.reviewer)).combined]
  /\ UNCHANGED <<fusionVars, detectVars, scoreVars, response, analysis, aiCall, thrown, helperVars>>

\* a call detectPatterns(code, fileName) by a caller that is not type-checked
DetectValues(code, fileName) ==
  /\ scanned = <<>>
  /\ calls < MaxCalls
  /\ LET r == detectPatternsCall(code, fileName, lastIndex) IN
       /\ thrown' = r.thrown
       /\ vulnerabilities' = r.out
       /\ lastIndex' = r.li
  /\ scanned' = <<code, fileName>>
  /\ calls' = calls + 1
  /\ UNCHANGED <<fusionVars, scoreVars, response, analysis, aiCall, join, helperVars>>

Next == \E S \in SemanticLists : Merge(S)

Spec == Init /\ [][Next]_vars

\* the scan pipeline: a file is scanned, the findings are merged with what the
\* semantic analyser returned for that file
PipelineInit == Init /\ patternResults = <<>>
PipelineNext ==
  \/ \E code \in Codes, fileName \in FileNames : Scan(code, fileName)
  \/ \E S \in AnalyserLists : Merge(S)
SpecPipeline == PipelineInit /\ [][PipelineNext]_vars

\* scans only, from an idle caller
DetectInit == PipelineInit
DetectNext ==
  \/ \E code \in Codes, fileName \in FileNames : Detect(code, fileName)
  \/ Discard
SpecDetect == DetectInit /\ [][DetectNext]_vars

\* calculateConfidence calls only
ConfidenceNext ==
  \E pattern \in ConfidencePatterns, line \in ConfidenceLines : Calculate(pattern, line)
SpecConfidence == DetectInit /\ [][ConfidenceNext]_vars

\* a scan, then the score of what it returned
ScanScoreNext ==
  \/ \E code \in Codes, fileName \in FileNames : Detect(code, fileName)
  \/ ScoreScanned
SpecScanScore == DetectInit /\ [][ScanScoreNext]_vars

\* the operations of the pattern matcher in any order
EngineNext ==
  \/ \E code \in Codes, fileName \in FileNames : Detect(code, fileName)
  \/ Discard
  \/ Calculate(VULNERABILITY_PATTERNS[1], <<"SELECT", Blank, "+", Blank, Quote>>)
  \/ \E type \in LookupTypes : Describe(type)
  \/ \E type \in LookupTypes : Suggest(type)
SpecEngine == DetectInit /\ [][EngineNext]_vars

\* score computations only
ScoreNext ==
  \/ \E vulns \in SeqsUpTo(ScoredFindings, MaxScored) : ScoreServer(vulns)
  \/ \E vulns \in SeqsUpTo(ScoredFindings, MaxScored) : ScoreGemini(vulns)
SpecScore == DetectInit /\ [][ScoreNext]_vars

\* analyzeCodeSecurity calls only
AnalysisNext ==
  \/ \E r \in ServerResponses : AnalyzeServer(r)
  \/ \E r \in GeminiResponses : AnalyzeGemini(r)
SpecAnalysis == DetectInit /\ [][AnalysisNext]_vars

\* analyzeWithAI calls only
ClientNext ==
  \E hasKey \in BOOLEAN, fileName \in ClientFileNames, reply \in Replies :
    AnalyzeWithAI(hasKey, fileName, reply)
SpecClient == DetectInit /\ [][ClientNext]_vars

\* joined scans.  The pattern path is synchronous code; the client library
\* settles every request, with a reply or with an error; the event loop runs
\* every continuation that is ready: each step that is enabled is taken.
\* PatternPath is enabled exactly where PatternReady holds and ends it, so its
\* weak fairness is []<>~PatternReady; likewise Fuse and FuseReady.
JoinNext ==
  \/ \E which \in {"analyzeCode", "analyzeCodeSecurity"},
        code \in JoinCodes, fileName \in FileNames : StartScan(which, code, fileName)
  \/ PatternPath
  \/ \E r \in JoinResponses, S \in AnalyserLists : ReviewerReplies(r, S)
  \/ ReviewerSettles
  \/ Fuse
SpecJoin ==
  /\ DetectInit /\ [][JoinNext]_vars
  /\ []<>~PatternReady
  /\ WF_vars(\E r \in JoinResponses, S \in AnalyserLists : ReviewerReplies(r, S))
  /\ WF_vars(ReviewerSettles)
  /\ []<>~FuseReady

\* detectPatterns calls on arbitrary values
ValuesNext ==
  \E code \in { String(c) : c \in Codes } \cup NonStrings,
     fileName \in { String(f) : f \in FileNames } \cup NonStrings :
    DetectValues(code, fileName)
SpecValues == DetectInit /\ [][ValuesNext]_vars

----------------------------------------------------------------------------
(* Properties of the result fusion (specification Spec)                    *)

Merged == pc = "merged"

\* a finding is the same object as another, whatever the merge wrote into it:
\* the merge never writes id, type, severity, line, column or message
SameFinding(a, b) ==
  /\ a.id = b.id /\ a.type = b.type /\ a.severity = b.severity
  /\ a.line = b.line /\ a.column = b.column /\ a.message = b.message

Capped(n) == IF n > 100 THEN 100 ELSE n

\* C1: the list a merge returns is at least as long as the pattern list it was
\* given, and every finding of that pattern list is still in it.
C1_FusionKeepsPatternFindings ==
  Merged =>
    /\ Len(combined) >= Len(entry)
    /\ \A i \in 1..Len(entry) :
         \E k \in 1..Len(combined) : SameFinding(combined[k], entry[i])

\* a merge that boosted its first pattern finding and appended a semantic one
C1_Witness ==
  /\ Merged
  /\ Len(entry) = 2
  /\ Len(combined) > Len(entry)
  /\ entry[1].detectionMethod = "PATTERN"
  /\ combined[1].detectionMethod = "HYBRID"

\* C2: a merge with an empty semantic list returns the pattern list element
\* for element and leaves every finding of it as it was, also when it is
\* applied again to a list that went through a merge before.
C2_EmptyMergeIsIdentity ==
  (Merged /\ aiResults = <<>>) =>
    /\ combined = entry
    /\ patternResults = entry

\* an empty merge applied to a list whose first finding an earlier merge boosted
C2_Witness ==
  /\ Merged
  /\ aiResults = <<>>
  /\ Len(entry) = 2
  /\ entry[1].detectionMethod = "HYBRID"
  /\ entry[2].detectionMethod = "PATTERN"

\* C3: when the one semantic finding of a merge overlaps, the finding that is
\* boosted (confidence + 15 capped at 100, detectionMethod hybrid) is the first
\* pattern finding that passes both overlap conditions, and no other finding
\* is modified.
C3_BoostsFirstOverlapping ==
  (Merged /\ Len(aiResults) = 1 /\ hasOverlap(entry, aiResults[1])) =>
    LET j == aiResults[1]
        first == CHOOSE i \in 1..Len(entry) :
                   /\ overlapTest(entry[i], j)
                   /\ \A k \in 1..(i - 1) : ~overlapTest(entry[k], j)
    IN \A i \in 1..Len(entry) :
         IF i = first
         THEN /\ patternResults[i].confidence = Capped(entry[i].confidence + 15)
              /\ patternResults[i].detectionMethod = "HYBRID"
         ELSE /\ patternResults[i].confidence = entry[i].confidence
              /\ patternResults[i].detectionMethod = entry[i].detectionMethod

\* s without its leading spaces
RECURSIVE stripLeft(_)
stripLeft(s) == IF s # <<>> /\ Head(s) = " " THEN stripLeft(Tail(s)) ELSE s

\* the first whitespace-delimited token of a type, lower-cased
firstWord(type) == splitFirst(stripLeft(toLowerCase(type)))

\* the overlap predicate as C4 words it
tokenPrefixOverlap(p, j) ==
  /\ Abs(p.line - j.line) <= 1
  /\ startsWith(firstWord(j.type), firstWord(p.type))

\* C4 as stated: the one semantic finding of a merge is appended exactly when
\* no pattern finding is within one line of it with the first token of its
\* type a prefix of the first token of the semantic finding's type.
C4_AppendedIffNoTokenPrefixOverlap ==
  (Merged /\ Len(aiResults) = 1) =>
    ( Len(combined) = Len(entry) + 1
      <=> ~ \E i \in 1..Len(entry) : tokenPrefixOverlap(entry[i], aiResults[1]) )

\* the characters of the lower-cased type j.type before its first space
\* occur, in a row, somewhere in the lower-cased p.type, and the lines are at
\* most one apart
substringOverlap(p, j) ==
  /\ p.line - j.line \in {0 - 1, 0, 1}
  /\ LET tok == splitFirst(toLowerCase(j.type)) IN
     \E off \in 0..(Len(p.type) - Len(tok)) :
       \A m \in 1..Len(tok) : lowerChar(p.type[off + m]) = tok[m]

\* C4, amended: a semantic finding is appended exactly when no pattern finding
\* is within one line of it with a type that, lower-cased, contains the
\* lower-cased text of the semantic type before its first space.
C4_AppendedIffNoSubstringOverlap ==
  Merged =>
    { combined[m].id : m \in (Len(entry) + 1)..Len(combined) }
      = { aiResults[k].id : k \in { n \in 1..Len(aiResults) :
            ~ \E i \in 1..Len(entry) : substringOverlap(entry[i], aiResults[n]) } }

\* a semantic finding that is not appended although no pattern finding's first
\* token is a prefix of its own (its first token occurs inside the pattern type)
C4_Witness ==
  /\ Merged
  /\ Len(aiResults) = 1
  /\ Len(entry) >= 1
  /\ Len(combined) = Len(entry)
  /\ ~ \E i \in 1..Len(entry) : tokenPrefixOverlap(entry[i], aiResults[1])

\* C5: a semantic finding that overlaps no pattern finding is appended with
\* detectionMethod hybrid and confidence + 10 capped at 100, its other fields
\* unchanged; nothing is appended with another detectionMethod.
C5_NovelFindingPushedAsHybrid ==
  Merged =>
    /\ \A k \in 1..Len(aiResults) :
         ~hasOverlap(entry, aiResults[k]) =>
           \E m \in (Len(entry) + 1)..Len(combined) :
             combined[m] = [aiResults[k] EXCEPT
                              !.detectionMethod = "HYBRID",
                              !.confidence = Capped(aiResults[k].confidence + 10)]
    /\ \A m \in (Len(entry) + 1)..Len(combined) :
         combined[m].detectionMethod = "HYBRID"

\* two semantic findings appended, one capped at 100 and one below the cap
C5_Witness ==
  /\ Merged
  /\ Len(combined) = Len(entry) + 2
  /\ aiResults[1].confidence = 95 /\ combined[Len(entry) + 1].confidence = 100
  /\ aiResults[2].confidence = 85 /\ combined[Len(entry) + 2].confidence = 95

\* C6: the returned list holds the pattern findings in their order, followed
\* by the semantic findings that overlap nothing in the order of the semantic
\* list.
C6_PatternOrderThenSemanticOrder ==
  Merged =>
    LET novel == SelectSeq(aiResults, LAMBDA j : ~hasOverlap(entry, j)) IN
    /\ Len(combined) = Len(entry) + Len(novel)
    /\ \A i \in 1..Len(entry) : SameFinding(combined[i], entry[i])
    /\ \A m \in 1..Len(novel) : combined[Len(entry) + m].id = novel[m].id

\* pattern findings and appended findings both in descending line order
C6_Witness ==
  /\ Merged
  /\ Len(entry) = 2 /\ entry[1].line > entry[2].line
  /\ Len(combined) = 4
  /\ combined[3].line > combined[4].line

\* C7: a pattern finding "SQL Injection" at line 10 merged with a semantic
\* finding "SQL Injection Risk" at line 11 yields one finding, at line 10,
\* hybrid, with the pattern confidence + 15 capped at 100.
C7_ScenarioC ==
  ( /\ Merged
    /\ Len(entry) = 1 /\ entry[1].type = TypeSqlInjection /\ entry[1].line = 10
    /\ Len(aiResults) = 1 /\ aiResults[1].type = TypeSqlInjectionRisk
    /\ aiResults[1].line = 11 ) =>
    /\ Len(combined) = 1
    /\ combined[1].line = 10
    /\ combined[1].detectionMethod = "HYBRID"
    /\ combined[1].confidence = Capped(entry[1].confidence + 15)

\* the scenario with a confidence the cap cuts
C7_Witness ==
  /\ Merged
  /\ Len(entry) = 1 /\ entry[1].type = TypeSqlInjection /\ entry[1].line = 10
  /\ entry[1].confidence = 90
  /\ Len(aiResults) = 1 /\ aiResults[1].type = TypeSqlInjectionRisk
  /\ aiResults[1].line = 11
  /\ combined[1].confidence = 100

----------------------------------------------------------------------------
(* Properties of the scan pipeline (specification SpecPipeline)            *)

\* C8: every finding detectPatterns returns has a confidence from 30 to 100,
\* and when no finding handed to a merge has a confidence above 100, no
\* finding of the merged list has one.
C8_ConfidenceBounds ==
  /\ \A i \in 1..Len(vulnerabilities) :
       vulnerabilities[i].confidence >= 30 /\ vulnerabilities[i].confidence <= 100
  /\ ( /\ Merged
       /\ \A i \in 1..Len(entry) : entry[i].confidence <= 100
       /\ \A k \in 1..Len(aiResults) : aiResults[k].confidence <= 100 ) =>
       \A m \in 1..Len(combined) : combined[m].confidence <= 100

\* a scanned finding of confidence 100 that the merge boosted
C8_Witness ==
  /\ Merged
  /\ vulnerabilities # <<>>
  /\ \E i \in 1..Len(entry) :
       /\ entry[i].confidence = 100
       /\ entry[i].detectionMethod = "PATTERN"
       /\ patternResults[i].detectionMethod = "HYBRID"

----------------------------------------------------------------------------
(* Properties of the pattern matcher (specification SpecDetect)            *)

\* C9: whatever scans came before it, a detectPatterns call returns the list
\* the same call returns on a registry no scan has touched, and leaves the
\* registry expressions' matching positions as they were; so two calls with
\* the same source text and file name return identical lists.
C9_RepeatedScansAgree ==
  /\ lastIndex = FreshRegistry
  /\ scanned # <<>> =>
       vulnerabilities = detectPatterns(scanned[1], scanned[2], FreshRegistry).out

\* a third call that returned several findings
C9_Witness ==
  /\ calls = 3
  /\ scanned # <<>>
  /\ Len(vulnerabilities) >= 3

\* character offsets at which the successive non-overlapping matches of pat
\* on line start, the search going on from lexeme offset li
RECURSIVE matchOffsets(_, _, _)
matchOffsets(line, pat, li) ==
  LET r == regExpExec(line, pat, li) IN
  IF ~r.found THEN <<>>
  ELSE <<charsBefore(line, r.lastIndex - Len(r.text))>>
         \o matchOffsets(line, pat, r.lastIndex)

\* the findings of the last call that signature p produced on line n
findingsOf(p, n) ==
  SelectSeq(vulnerabilities,
            LAMBDA f : f.line = n /\ f.type = VULNERABILITY_PATTERNS[p].name)

\* the signatures that apply to the file of the last call
Applied ==
  LET app == applicablePatterns(scanned[2]) IN { app[k] : k \in 1..Len(app) }

\* C19: for every line and every applicable signature there is exactly one
\* finding per non-overlapping match of the signature's pattern on that line,
\* and the column of each is the character offset at which that match
\* starts, also for a later match with the same matched text.
C19_ColumnIsMatchStart ==
  scanned # <<>> =>
    \A n \in 1..Len(scanned[1]), p \in Applied :
      LET offsets == matchOffsets(scanned[1][n], VULNERABILITY_PATTERNS[p].pattern, 0)
          found == findingsOf(p, n)
      IN /\ Len(found) = Len(offsets)
         /\ \A m \in 1..Len(found) : found[m].column = offsets[m]

\* the signature that produced a finding
signatureOf(f) == CHOOSE p \in Registry : VULNERABILITY_PATTERNS[p].name = f.type

\* C20: the returned findings are in non-decreasing line order and, within a
\* line, in registry order of their signatures; every signature that matches
\* a line has all its findings in the list; every finding has
\* detectionMethod PATTERN and the 1-based number of its line.
C20_LineThenRegistryOrder ==
  scanned # <<>> =>
    /\ \A i, j \in 1..Len(vulnerabilities) :
         i < j =>
           \/ vulnerabilities[i].line < vulnerabilities[j].line
           \/ /\ vulnerabilities[i].line = vulnerabilities[j].line
              /\ signatureOf(vulnerabilities[i]) <= signatureOf(vulnerabilities[j])
    /\ \A i \in 1..Len(vulnerabilities) :
         /\ vulnerabilities[i].detectionMethod = "PATTERN"
         /\ vulnerabilities[i].line \in 1..Len(scanned[1])
         /\ signatureOf(vulnerabilities[i]) \in Applied
    /\ \A n \in 1..Len(scanned[1]), p \in Applied :
         Len(findingsOf(p, n)) =
           Len(stringMatch(scanned[1][n], VULNERABILITY_PATTERNS[p].pattern, 0).matches)

\* two signatures fired on one line and another line has a finding too
C20_Witness ==
  /\ scanned # <<>>
  /\ \E i, j \in 1..Len(vulnerabilities) :
       /\ vulnerabilities[i].line = vulnerabilities[j].line
       /\ vulnerabilities[i].type # vulnerabilities[j].type
  /\ \E i, j \in 1..Len(vulnerabilities) :
       vulnerabilities[i].line # vulnerabilities[j].line

----------------------------------------------------------------------------
(* Properties of the score aggregators (specification SpecScore)           *)

KnownSeverities == {"critical", "high", "medium", "low"}

\* the maximum of the scale a score is on: 10.0 in tenths, or 100 points
MaximumOf(variant) == 100

\* C10: for a finding list whose severities are all known, the score is a
\* number from 0 to the maximum of its scale, and the maximum for the empty
\* list.
C10_ScoreWithinBounds ==
  ( /\ score.variant # "none"
    /\ \A i \in 1..Len(findingsIn) : findingsIn[i].severity \in KnownSeverities ) =>
    /\ ~score.nan
    /\ score.v >= 0
    /\ score.v <= MaximumOf(score.variant)
    /\ findingsIn = <<>> => score.v = MaximumOf(score.variant)

----------------------------------------------------------------------------
(* Properties of the score aggregators (specification SpecScore)           *)

\* sum over the first n findings of weight(severity) times confidence: in
\* hundredths of a point of the 0..100 scale
RECURSIVE proportionalPenalty(_, _)
proportionalPenalty(vulns, n) ==
  IF n = 0 THEN 0
  ELSE proportionalPenalty(vulns, n - 1)
       + weights(vulns[n].severity).v * vulns[n].confidence

InRange(vulns) ==
  \A i \in 1..Len(vulns) :
    /\ vulns[i].severity \in KnownSeverity
    /\ vulns[i].confidence >= 0 /\ vulns[i].confidence <= 100

\* C13: for a non-empty finding list the score is max(0, maximum - sum of
\* penalties), the penalty of a finding being weight(severity) times its
\* confidence as a fraction of full confidence, for every confidence in
\* range, 0 included (weights critical 25, high 15, medium 8, low 3,
\* rescaled to the score range).
C13_PenaltyProportionalToConfidence ==
  (score.variant # "none" /\ findingsIn # <<>> /\ InRange(findingsIn)) =>
    /\ ~score.nan
    /\ LET remaining == Max(0, 10000 - proportionalPenalty(findingsIn, Len(findingsIn)))
       IN IF score.variant = "server"
            THEN score.v = roundTenths(remaining)
            ELSE score.v * 100 = remaining

\* the list with every unknown severity replaced by low
asLow(vulns) ==
  [i \in 1..Len(vulns) |->
     IF vulns[i].severity \in KnownSeverity THEN vulns[i]
     ELSE [vulns[i] EXCEPT !.severity = "low"]]

\* C14: a finding list that holds a finding of unknown severity gets a
\* numeric score within 0..maximum, the score the list gets with low in
\* place of every unknown severity.
C14_UnknownSeverityScoredAsLow ==
  (score.variant # "none" /\ \E i \in 1..Len(findingsIn) :
                               findingsIn[i].severity \notin KnownSeverity) =>
    /\ ~score.nan
    /\ score.v >= 0 /\ score.v <= 100
    /\ score.v = (IF score.variant = "server"
                    THEN calculateFallbackScoreServer(asLow(findingsIn))
                    ELSE calculateFallbackScoreGemini(asLow(findingsIn))).v

----------------------------------------------------------------------------
(* Properties of analyzeCodeSecurity (specification SpecAnalysis)          *)

Returned == analysis.variant # "none" /\ ~analysis.null /\ ~analysis.rejected

\* the maximum of either scale in the unit of its variant: 10.0 in tenths,
\* 100 in points
FullMarks == Num(100)

carriesUsableScore ==
  /\ response.securityScore.isNumber
  /\ IF analysis.variant = "server"
       THEN response.securityScore.v >= 0 /\ response.securityScore.v <= 100
       ELSE response.securityScore.v # 0

C12_SummaryCountsReturnedFindings ==
  Returned => analysis.summary = summaryOf(analysis.vulnerabilities)

\* C15: a finding of the response whose severity is none of low, medium,
\* high, critical reaches the caller with severity low, and the call
\* returns a result.
C15_UnknownSeverityBecomesLow ==
  (response.kind = "object" /\ response.vulnerabilities.isArray) =>
    /\ Returned
    /\ Len(analysis.vulnerabilities) = Len(response.vulnerabilities.items)
    /\ \A i \in 1..Len(response.vulnerabilities.items) :
         response.vulnerabilities.items[i].severity \notin KnownSeverity =>
           analysis.vulnerabilities[i].severity = "low"

----------------------------------------------------------------------------
(* Properties of analyzeWithAI (specification SpecClient)                  *)

Unavailable == ~aiCall.hasKey \/ aiCall.reply.kind # "object"

----------------------------------------------------------------------------
(* Properties of a joined scan (specification SpecJoin)                    *)

\* every pattern finding is in the result, in its place
KeepsPatternFindings ==
  /\ Len(join.result) >= Len(join.pattern.out)
  /\ \A i \in 1..Len(join.pattern.out) :
       SameFinding(join.result[i], join.pattern.out[i])

\* C17: every server analyser call settles with an analysis object or null
\* and never rejects; so in every interleaving of the pattern path and the
\* analyser path a started scan reaches the fusion and completes with a
\* finding list that holds all pattern findings, the semantic input being
\* empty when the analyser yielded null.
C17_ScanReachesFusion ==
  /\ [](join.reviewer.pc = "settled" => ~join.reviewer.outcome.rejected)
  /\ [](join.state = "fused" =>
          /\ KeepsPatternFindings
          /\ join.reviewer.outcome.null => join.result = join.pattern.out)
  /\ (join.state = "started") ~> (join.state = "fused")

\* a scan whose analyser call failed completed with its pattern findings
C17_Witness ==
  /\ join.state = "fused"
  /\ join.reviewer.response.kind = "rejects" /\ join.reviewer.outcome.null
  /\ join.pattern.out # <<>> /\ join.result = join.pattern.out

----------------------------------------------------------------------------
(* Properties of detectPatterns on arbitrary values (specification         *)
(* SpecValues)                                                             *)

\* C18: a detectPatterns call whose source text or file name is absent or
\* no string does not raise and returns the empty finding list.
C18_NonStringInputGivesEmptyList ==
  (scanned # <<>> /\ (scanned[1] \in NonStrings \/ scanned[2] \in NonStrings)) =>
    thrown = "none" /\ vulnerabilities = <<>>

----------------------------------------------------------------------------
(* Further properties of the pattern matcher (specification SpecDetect)    *)

\* C21: every finding of a detectPatterns call comes from a signature whose
\* languages hold the language derived for the scanned file or the wildcard
\* "all"; for a file whose extension is not in the language map only
\* wildcard signatures produce findings.
C21_FindingsFromApplicableSignatures ==
  scanned # <<>> =>
    \A i \in 1..Len(vulnerabilities) :
      LET languages == VULNERABILITY_PATTERNS[signatureOf(vulnerabilities[i])].languages
      IN /\ currentLanguage(scanned[2]) \in languages \/ "all" \in languages
         /\ fileExtension(scanned[2]) \notin DOMAIN languageMap => "all" \in languages

\* a Python file was scanned and has findings
C21_Witness ==
  /\ scanned # <<>>
  /\ currentLanguage(scanned[2]) = "python"
  /\ vulnerabilities # <<>>

\* the confidence of the claimed formula: 70 + s + c - t, kept within 30..100
claimedBonus ==
  ("CRITICAL" :> 20) @@ ("HIGH" :> 15) @@ ("MEDIUM" :> 10) @@ ("LOW" :> 0)

claimedConfidence(call) ==
  LET trimmed == trim(textOf(call.line))
      lower == toLowerCase(textOf(call.line))
      s == claimedBonus[call.severity]
      c == IF \A prefix \in {<<"/","/">>, <<"/","*">>, <<"#">>} : ~startsWith(trimmed, prefix)
           THEN 10 ELSE 0
      t == IF \E word \in {<<"t","e","s","t">>, <<"m","o","c","k">>} : includes(lower, word)
           THEN 20 ELSE 0
      sum == 70 + s + c - t
  IN IF sum < 30 THEN 30 ELSE IF sum > 100 THEN 100 ELSE sum

\* C22: calculateConfidence returns 70 + s + c - t kept within 30..100, where
\* s is 20, 15, 10, 0 for critical, high, medium, low, c is 10 exactly when the
\* trimmed line starts with none of //, /* and #, and t is 20 exactly when
\* the lower-cased line contains test or mock.
C22_ConfidenceFormula ==
  confidenceCall # NoConfidenceCall =>
    confidenceCall.confidence = claimedConfidence(confidenceCall)

\* a critical entry on a comment line that mentions a test, in capitals
C22_Witness ==
  /\ confidenceCall # NoConfidenceCall
  /\ confidenceCall.severity = "CRITICAL"
  /\ confidenceCall.line = <<Blank, Hash, "Mock", Blank>>
  /\ confidenceCall.confidence = 70

sameTestFlag(a, b) == looksLikeTest(a.line) <=> looksLikeTest(b.line)

\* C23: with the same severity and the same test flag, a match on a comment
\* line gets a strictly lower confidence than a match on a line that is not
\* a comment; the limits 30 and 100 never make the two equal.
C23_CommentStrictlyLower ==
  ( /\ previousCall # NoConfidenceCall
    /\ previousCall.severity = confidenceCall.severity
    /\ sameTestFlag(previousCall, confidenceCall)
    /\ startsWithComment(previousCall.line)
    /\ ~startsWithComment(confidenceCall.line) )
  => previousCall.confidence < confidenceCall.confidence

\* the pair nearest the upper limit: critical, no test, 90 against 100
C23_Witness ==
  /\ previousCall # NoConfidenceCall
  /\ previousCall.severity = "CRITICAL"
  /\ confidenceCall.severity = "CRITICAL"
  /\ startsWithComment(previousCall.line)
  /\ ~startsWithComment(confidenceCall.line)
  /\ ~looksLikeTest(previousCall.line)
  /\ ~looksLikeTest(confidenceCall.line)
  /\ previousCall.confidence = 90
  /\ confidenceCall.confidence = 100

\* "": split('\n') gives the one line ""
EmptyText == <<>> \o [n \in 1..1 |-> <<>>]

\* C24: for the empty source text detectPatterns returns the empty list (it
\* raises nothing), the score over that list is the maximum, and every
\* severity bucket of its summary is 0.
C24_EmptyTextScansClean ==
  (scanned # <<>> /\ scanned[1] = EmptyText) =>
    /\ vulnerabilities = <<>>
    /\ score.variant # "none" =>
         /\ findingsIn = <<>>
         /\ score = [variant |-> "server"] @@ Num(100)
         /\ summaryOf(findingsIn) = [critical |-> 0, high |-> 0, medium |-> 0, low |-> 0]

C24_Witness ==
  /\ scanned # <<>>
  /\ scanned[1] = EmptyText
  /\ scanned[2] = <<"app", "js">>
  /\ score.variant = "server"

\* "SELECT * FROM users WHERE id = " + userId, the only line of the file
ScenarioA == <<>> \o [n \in 1..1 |-> <<Quote, "SELECT", Blank, Quote, Blank, "+", Blank, "userId">>]

\* C25: the scan of a JavaScript file whose only line is a quoted SQL string
\* followed by + and an identifier returns at least one finding of severity
\* critical, of a type beginning with "SQL Injection", of confidence >= 90.
C25_ScenarioA ==
  (scanned # <<>> /\ scanned[1] = ScenarioA /\ scanned[2] = <<"app", "js">>) =>
    \E i \in 1..Len(vulnerabilities) :
      /\ vulnerabilities[i].severity = "CRITICAL"
      /\ startsWith(vulnerabilities[i].type, TypeSqlInjection)
      /\ vulnerabilities[i].confidence >= 90

\* C26: no operation of the pattern matcher (detectPatterns, calculateConfidence,
\* getVulnerabilityTypeDescription, getVulnerabilityTypeSuggestion) changes
\* the registry, and a scan run between any other operations returns the
\* list it returns when run alone on an untouched registry.
C26_RegistryReadOnly ==
  [][ /\ lastIndex' = lastIndex
      /\ scanned' # <<>> =>
           vulnerabilities' = detectPatterns(scanned'[1], scanned'[2], FreshRegistry).out ]_vars

\* a third scan with findings, after a lookup and a confidence computation
C26_Witness ==
  /\ calls = 3
  /\ scanned # <<>>
  /\ vulnerabilities # <<>>
  /\ lookup.function = "getVulnerabilityTypeSuggestion"
  /\ previousCall # NoConfidenceCall

\* C28: within the list one detectPatterns call returns no two findings
\* have the same id.
C28_IdsDistinct ==
  scanned # <<>> =>
    \A i, k \in 1..Len(vulnerabilities) :
      i # k => vulnerabilities[i].id # vulnerabilities[k].id

----------------------------------------------------------------------------
(* Further properties of the result fusion (specification Spec)            *)

\* index of the first pattern finding of list that j overlaps (line and type)
firstOverlapped(list, j) ==
  CHOOSE i \in 1..Len(list) :
    /\ overlapTest(list[i], j)
    /\ \A k \in 1..(i - 1) : ~overlapTest(list[k], j)

\* C27: when the one semantic finding j of a merge overlaps pattern finding p
\* and j.suggestion is non-empty and differs from p.suggestion, p.suggestion
\* afterwards is its previous text followed by a delimiter and j.suggestion;
\* when j.suggestion is empty or equal to p.suggestion it is unchanged.
C27_SuggestionAppended ==
  (Merged /\ Len(aiResults) = 1 /\ hasOverlap(entry, aiResults[1])) =>
    LET j == aiResults[1]
        p == firstOverlapped(entry, j)
    IN IF j.suggestion # "" /\ j.suggestion # entry[p].suggestion
       THEN patternResults[p].suggestion =
              entry[p].suggestion \o " AI suggests: " \o j.suggestion
       ELSE patternResults[p].suggestion = entry[p].suggestion

\* the semantic findings of the merge whose first overlapped pattern finding
\* is entry[i]
overlapping(i) ==
  { k \in 1..Len(aiResults) :
      hasOverlap(entry, aiResults[k]) /\ firstOverlapped(entry, aiResults[k]) = i }

\* the semantic findings of the merge that overlap no pattern finding
novel == { k \in 1..Len(aiResults) : ~hasOverlap(entry, aiResults[k]) }

\* C29: each semantic finding of a merge has exactly one effect, an append or
\* a boost of one pattern finding, overlap being decided against the pattern
\* findings as they were given only: the result is as long as the pattern
\* list plus the semantic findings that overlap no pattern finding, and a
\* pattern finding overlapped by k semantic findings ends with confidence
\* min(original + 15k, 100).
C29_OneEffectPerSemanticFinding ==
  Merged =>
    /\ Len(combined) = Len(entry) + Cardinality(novel)
    /\ \A i \in 1..Len(entry) :
         patternResults[i].confidence =
           Capped(entry[i].confidence + 15 * Cardinality(overlapping(i)))

----------------------------------------------------------------------------
(* Further properties of analyzeCodeSecurity (specification SpecAnalysis)  *)

\* C30: the Gemini variant returns every finding of the response with a
\* severity among low, medium, high, critical and a confidence in [0, 1], and
\* leaves valid values as they are: a confidence within [0, 1] and a
\* securityScore within [0, 100] are returned unchanged.
C30_GeminiKeepsValidFields ==
  (analysis.variant = "gemini" /\ Returned /\ response.vulnerabilities.isArray) =>
    /\ Len(analysis.vulnerabilities) = Len(response.vulnerabilities.items)
    /\ \A i \in 1..Len(response.vulnerabilities.items) :
         LET given == response.vulnerabilities.items[i]
             got == analysis.vulnerabilities[i]
         IN /\ got.severity \in KnownSeverity
            /\ got.confidence \in 0..100
            /\ given.confidence \in 0..100 => got.confidence = given.confidence
    /\ (response.securityScore.isNumber /\ response.securityScore.v \in 0..100) =>
         analysis.securityScore = Num(response.securityScore.v)

====
